---- MODULE Spec2Model ----
(***************************************************************************)
(* Verification model of the two asset scripts of the repository:          *)
(*   scripts/optimize-images.py   (batch image optimizer)                  *)
(*   scripts/generate-og-image.py (Open Graph image generator)             *)
(*                                                                         *)
(* Three specifications share the module:                                  *)
(*   SpecOpt  the optimizer's main loop over the fixed worklist            *)
(*   SpecImg  the pixel pipeline of optimize_png, _jpg and _webp           *)
(*   SpecGen  one run of the generator script                              *)
(***************************************************************************)
EXTENDS Integers, Sequences, FiniteSets, TLC

VARIABLES
    \* ---- optimizer (optimize-images.py, main) ----
    exists,         \* exists[k]: os.path.exists of worklist path k, now
    fsize,          \* fsize[k]: os.path.getsize of worklist path k, now
    link,           \* link[k]: first worklist position whose path names the same
                    \* file as path k (hard links, symbolic links)
    exists0,        \* the file system before the run (history)
    fsize0,         \* the file sizes before the run (history)
    i,              \* position of the for loop in images_to_optimize
    opc,            \* "loop" | "done" | "aborted"
    total_saved,    \* main's accumulator
    original_size,  \* main's local, line 169
    new_size,       \* main's local, lines 172-176
    new_size_bound, \* whether new_size has been assigned at all
    calls,          \* the optimize_* calls made, in order
    out,            \* the lines printed, in order
    failedAt,       \* position whose processing raised, 0 when none
    \* ---- pixel pipeline (optimize_png, optimize_jpg) ----
    img,            \* the image stored in the input file
    fmt,            \* which optimize_* ran: "none" | "png" | "jpg" | "webp"
    saved,          \* the image handed to save()
    \* ---- generator (generate-og-image.py) ----
    pilInstalled,   \* whether "from PIL import ..." can succeed
    stdoutEnc,      \* sys.stdout.encoding
    stdoutErrors,   \* sys.stdout.errors, the error handler of the encoding
    pathChar,       \* the character of output_path that is hardest to print
    fontExists,     \* fontExists[k]: os.path.exists(font_paths[k])
    gpc,            \* "import" | "fonts" | "draw" | "save" | "report" | "exit"
    title_font,     \* create_og_image's local
    subtitle_font,  \* create_og_image's local
    tried,          \* the ImageFont.truetype calls made, in order
    fontError,      \* the truetype call that raised: "none" | "title" | "subtitle"
    ogFile,         \* size of the file at output_path, 0 when there is none
    saves,          \* number of img.save calls that returned
    file_size,      \* create_og_image's local, line 115, 0 while not measured
    raised,         \* kind of the exception that left create_og_image, or "none"
    gout,           \* the lines printed on stdout, in order
    uncaught,       \* the exception no handler caught, whose traceback the
                    \* interpreter prints on stderr, or "none"
    exitCode        \* << >> while the process runs, then <<its exit code>>

optVars == <<exists, fsize, link, exists0, fsize0, i, opc, total_saved,
             original_size, new_size, new_size_bound, calls, out, failedAt>>
imgVars == <<img, fmt, saved>>
genVars == <<pilInstalled, stdoutEnc, stdoutErrors, pathChar, fontExists, gpc, title_font,
             subtitle_font, tried, fontError, ogFile, saves, file_size, raised,
             gout, uncaught, exitCode>>
vars == <<optVars, imgVars, genVars>>

(***************************************************************************)
(* Three specifications share the variables; each lets the variables of   *)
(* the other two scripts rest at these values.                             *)
(***************************************************************************)
OptIdle ==
    /\ exists0 = << >>
    /\ fsize0 = << >>
    /\ exists = exists0
    /\ fsize = fsize0
    /\ i = 1
    /\ opc = "idle"
    /\ total_saved = 0
    /\ original_size = 0
    /\ new_size = 0
    /\ new_size_bound = FALSE
    /\ calls = << >>
    /\ out = << >>
    /\ failedAt = 0
    /\ link = << >>

ImgIdle ==
    /\ img = << >>
    /\ fmt = "idle"
    /\ saved = << >>

GenIdle ==
    /\ pilInstalled = TRUE
    /\ stdoutEnc = "idle"
    /\ stdoutErrors = "idle"
    /\ pathChar = "idle"
    /\ fontExists = << >>
    /\ gpc = "idle"
    /\ title_font = << >>
    /\ subtitle_font = << >>
    /\ tried = << >>
    /\ fontError = "none"
    /\ ogFile = 0
    /\ saves = 0
    /\ file_size = 0
    /\ raised = "none"
    /\ gout = << >>
    /\ uncaught = "none"
    /\ exitCode = << >>

(***************************************************************************)
(* Bounds of the model.                                                    *)
(***************************************************************************)
\* largest file size (in bytes) a worklist file or an encoder output takes
MaxFileSize == 2

FileSizes == 0 .. MaxFileSize
\* an encoder never writes an empty file; the model lets it write the smallest
\* or the largest size, so that a file shrinks, keeps its size or grows
EncodedSizes == {1, MaxFileSize}

(***************************************************************************)
(* optimize-images.py                                                      *)
(***************************************************************************)
images_to_optimize ==
    << [path |-> "src/assets/covers/fracture-engine.png",  format |-> "png"],
       [path |-> "public/covers/fracture-engine.png",      format |-> "png"],
       [path |-> "src/assets/covers/fracture-engine.webp", format |-> "webp"],
       [path |-> "public/covers/fracture-engine.webp",     format |-> "webp"],
       [path |-> "public/cache-mcclure-og.jpg",            format |-> "jpg"] >>

Positions == 1 .. Len(images_to_optimize)

\* One printed line of the optimizer. Fields a line does not carry are 0.
Line(kind, k, o, n, s) ==
    [line |-> kind, idx |-> k, orig |-> o, new |-> n, amount |-> s]

\* if / elif / elif of main, lines 171-176: the function the tag selects,
\* "none" when no branch matches (the chain has no else).
DispatchTypo(format_type) ==
    IF format_type = "png" THEN "optimize_png"
    ELSE IF format_type = "jpeg" THEN "optimize_jpg"
    ELSE IF format_type = "webp" THEN "optimize_webp"
    ELSE "none"

Dispatch(format_type) ==
    IF format_type = "png" THEN "optimize_png"
    ELSE IF format_type = "jpg" THEN "optimize_jpg"
    ELSE IF format_type = "webp" THEN "optimize_webp"
    ELSE "none"

\* savings = original_size - new_size, lines 45, 98, 142
Savings(orig, new) == orig - new

\* total_saved += (original_size - new_size), line 178
TotalAfterOverwrite(total, orig, new) == orig - new

TotalAfter(total, orig, new) == total + (orig - new)

\* `continue` of line 167: the loop goes on with the next entry
AfterSkipBreak(k) == Len(images_to_optimize) + 1

AfterSkip(k) == k + 1

\* main has no try/except: an exception raised in an iteration leaves the loop
\* and the function; the process ends with a traceback.
PcAfterRaiseCaught == "loop"

PcAfterRaise == "aborted"

\* The body shared by optimize_png, optimize_jpg and optimize_webp as far as the
\* file system and the report go: measure, overwrite in place (output_path is
\* input_path), measure again, print, return new_size.
\*   disk: size of the file at input_path when the function is entered
\*   n:    size of the file the encoder writes
OptimizeFile(k, disk, n) ==
    LET orig == disk
        new  == n
        savings == Savings(orig, new)
    IN  [ written  |-> n,
          returned |-> new,
          lines    |-> << Line("Optimizing", k, 0, 0, 0),
                          Line("Original", k, orig, 0, 0),
                          Line("Optimized", k, 0, new, 0),
                          Line("Saved", k, orig, new, savings) >> ]

\* The ways the worklist paths can share files: each path points at the
\* first position that names its file.
Links ==
    { l \in [Positions -> Positions] :
         \A k \in Positions : l[k] <= k /\ l[l[k]] = l[k] }

\* the file system after the file named by path k got size n: every path
\* that names the same file sees it
WriteFile(fs, k, n) ==
    [j \in Positions |-> IF link[j] = link[k] THEN n ELSE fs[j]]

OptInit ==
    /\ ImgIdle /\ GenIdle
    /\ link \in Links
    /\ exists0 \in [Positions -> BOOLEAN]
    /\ \A k \in Positions : exists0[k] = exists0[link[k]]
    /\ fsize0 \in [Positions -> FileSizes]
    /\ \A k \in Positions : fsize0[k] = fsize0[link[k]]
    /\ \A k \in Positions : ~exists0[k] => fsize0[k] = 0
    /\ exists = exists0
    /\ fsize = fsize0
    /\ i = 1
    /\ opc = "loop"
    /\ total_saved = 0
    /\ original_size = 0
    /\ new_size = 0
    /\ new_size_bound = FALSE
    /\ calls = << >>
    /\ out = << >>
    /\ failedAt = 0

\* lines 165-167: the file is not there
SkipEntry ==
    /\ UNCHANGED <<imgVars, genVars>>
    /\ opc = "loop"
    /\ i \in Positions
    /\ ~exists[i]
    /\ out' = Append(out, Line("Skipping", i, 0, 0, 0))
    /\ i' = AfterSkip(i)
    /\ UNCHANGED <<exists, fsize, link, exists0, fsize0, opc, total_saved,
                   original_size, new_size, new_size_bound, calls, failedAt>>

\* lines 169-179: one iteration that runs to its end. Image.open accepts no
\* empty file, so a processed file has a positive size.
ProcessEntry ==
    /\ UNCHANGED <<imgVars, genVars>>
    /\ opc = "loop"
    /\ i \in Positions
    /\ exists[i]
    /\ fsize[i] > 0
    /\ \E n \in EncodedSizes :
        LET fn == Dispatch(images_to_optimize[i].format)
            r  == OptimizeFile(i, fsize[i], n)
        IN  /\ original_size' = fsize[i]
            /\ IF fn = "none"
               THEN \* no branch assigns new_size
                    /\ UNCHANGED <<fsize, calls, new_size, new_size_bound>>
                    /\ IF new_size_bound
                       THEN /\ total_saved' =
                                 TotalAfter(total_saved, original_size', new_size)
                            /\ out' = Append(out, Line("Blank", i, 0, 0, 0))
                            /\ i' = i + 1
                            /\ UNCHANGED <<opc, failedAt>>
                       ELSE \* UnboundLocalError at line 178
                            /\ opc' = PcAfterRaise
                            /\ failedAt' = i
                            /\ UNCHANGED <<total_saved, out, i>>
               ELSE /\ calls' = Append(calls, [fn |-> fn, idx |-> i])
                    /\ fsize' = WriteFile(fsize, i, r.written)
                    /\ new_size' = r.returned
                    /\ new_size_bound' = TRUE
                    /\ total_saved' =
                         TotalAfter(total_saved, original_size', new_size')
                    /\ out' = out \o r.lines \o << Line("Blank", i, 0, 0, 0) >>
                    /\ i' = i + 1
                    /\ UNCHANGED <<opc, failedAt>>
    /\ UNCHANGED <<exists, link, exists0, fsize0>>

\* lines 169-176: an iteration in which Image.open, the rebuild or save raises.
\*   "open": nothing was written (an empty or unreadable file, a decode error);
\*   "save": the output file was opened for writing and the encoder raised, the
\*           file at this position is left with whatever was written, under
\*           every path that names it.
FailEntry ==
    /\ UNCHANGED <<imgVars, genVars>>
    /\ opc = "loop"
    /\ i \in Positions
    /\ exists[i]
    /\ \E stage \in {"open", "save"} :
        /\ (fsize[i] = 0 => stage = "open")
        /\ IF stage = "open"
           THEN fsize' = fsize
           ELSE \E partial \in FileSizes : fsize' = WriteFile(fsize, i, partial)
    /\ original_size' = fsize[i]
    /\ calls' = Append(calls, [fn |-> Dispatch(images_to_optimize[i].format), idx |-> i])
    /\ out' = Append(out, Line("Optimizing", i, 0, 0, 0))
    /\ failedAt' = i
    /\ opc' = PcAfterRaise
    /\ i' = IF opc' = "loop" THEN i + 1 ELSE i
    /\ UNCHANGED <<exists, link, exists0, fsize0, total_saved, new_size,
                   new_size_bound>>

\* lines 181-182
FinishRun ==
    /\ UNCHANGED <<imgVars, genVars>>
    /\ opc = "loop"
    /\ i = Len(images_to_optimize) + 1
    /\ out' = out \o << Line("Total", 0, 0, 0, total_saved),
                        Line("Success", 0, 0, 0, 0) >>
    /\ opc' = "done"
    /\ UNCHANGED <<exists, fsize, link, exists0, fsize0, i, total_saved,
                   original_size, new_size, new_size_bound, calls, failedAt>>



(***************************************************************************)
(* optimize-images.py: the pixel pipeline of optimize_png and optimize_jpg *)
(*                                                                         *)
(* An image is [mode, width, data, palette, trns, info]:                   *)
(*   data     one tuple of channel values per pixel, in the mode's bands   *)
(*            (RGB <<r,g,b>>, RGBA <<r,g,b,a>>, L <<l>>, LA <<l,a>>,       *)
(*            P <<palette index>>)                                         *)
(*   palette  the colour of each palette index (mode P), index 0 first     *)
(*   trns     the alpha of each palette index (info["transparency"]),      *)
(*            << >> when the file has none                                 *)
(*   info     the other ancillary entries of Image.info                    *)
(***************************************************************************)
\* largest number of pixels of an input image
MaxPixels == 2

\* channel value of the white background, (255, 255, 255)
White == 255

Colours == { <<0, 0, 0>>, <<White, White, White>>, <<200, 30, 90>> }
Greys == { 0, 77, White }
Alphas == { 0, 128, 255 }
PaletteIndexes == { 0, 1 }
Palettes == [1 .. Cardinality(PaletteIndexes) -> Colours]
Transparencies == { << >> } \cup [1 .. Cardinality(PaletteIndexes) -> Alphas]
InfoKeys == { "exif", "icc_profile" }
Widths == 1 .. MaxPixels

PixelsOf(mode) ==
    CASE mode = "RGB"  -> Colours
      [] mode = "RGBA" -> { c \o <<a>> : c \in Colours, a \in Alphas }
      [] mode = "L"    -> { <<l>> : l \in Greys }
      [] mode = "LA"   -> { <<l, a>> : l \in Greys, a \in Alphas }
      [] mode = "P"    -> { <<x>> : x \in PaletteIndexes }

Modes == { "RGB", "RGBA", "L", "LA", "P" }

\* the images a file can hold
Images ==
    UNION { UNION { { [mode |-> m, width |-> w, data |-> d, palette |-> pal,
                       trns |-> t, info |-> inf] :
                         d \in [1 .. w -> PixelsOf(m)],
                         pal \in (IF m = "P" THEN Palettes ELSE { << >> }),
                         t \in (IF m = "P" THEN Transparencies ELSE { << >> }),
                         inf \in SUBSET InfoKeys } : w \in Widths } : m \in Modes }

NoImage == [mode |-> "none", width |-> 0, data |-> << >>, palette |-> << >>,
            trns |-> << >>, info |-> {}]

\* the palette a new mode-P image starts with: every entry black (a grey ramp
\* in older Pillow releases); never the palette of the source image
DefaultPalette == [k \in 1 .. Cardinality(PaletteIndexes) |-> <<0, 0, 0>>]

\* the pixel Image.new fills with when no colour is given (colour 0)
ZeroPixel(mode) ==
    CASE mode = "RGB"  -> <<0, 0, 0>>
      [] mode = "RGBA" -> <<0, 0, 0, 0>>
      [] mode = "L"    -> <<0>>
      [] mode = "LA"   -> <<0, 0>>
      [] mode = "P"    -> <<0>>

\* Image.new(mode, size, color): a fresh image; it has no metadata, and a
\* mode-P image has the default palette, not the palette of any other image
ImageNew(mode, width, pixel) ==
    [mode |-> mode, width |-> width, data |-> [k \in 1 .. width |-> pixel],
     palette |-> IF mode = "P" THEN DefaultPalette ELSE << >>,
     trns |-> << >>, info |-> {}]

\* list(img.getdata()): the raw pixel values, palette indexes for mode P
GetData(im) == im.data

\* im.putdata(data)
PutData(im, data) == [im EXCEPT !.data = [k \in 1 .. im.width |-> data[k]]]

\* "Remove EXIF data by creating a new image with just the pixel data"
StripExif(im) == PutData(ImageNew(im.mode, im.width, ZeroPixel(im.mode)), GetData(im))

\* img.convert('RGBA') of a mode-P image: palette colour and palette alpha
ConvertRGBA(im) ==
    [im EXCEPT !.mode = "RGBA",
               !.data = [k \in 1 .. im.width |->
                           im.palette[im.data[k][1] + 1]
                           \o << IF im.trns = << >> THEN 255
                                 ELSE im.trns[im.data[k][1] + 1] >>],
               !.palette = << >>,
               !.trns = << >>]

\* img.split()[-1]: the last band
LastBand(im) == [k \in 1 .. im.width |-> im.data[k][Len(im.data[k])]]

\* the mask argument of paste, line 79; << >> stands for None
MaskForRgbaOnly(im) == IF im.mode = "RGBA" THEN LastBand(im) ELSE << >>

MaskFor(im) == IF im.mode \in {"RGBA", "LA"} THEN LastBand(im) ELSE << >>

\* the colour bands of an RGBA or LA pixel as paste reads them into an RGB image
ColourBands(mode, px) ==
    IF mode = "LA" THEN <<px[1], px[1], px[1]>> ELSE <<px[1], px[2], px[3]>>

\* one channel of paste under an 8-bit mask
Blend8(mask, dst, src) ==
    LET tmp == mask * src + (255 - mask) * dst + 128
    IN  (tmp + (tmp \div 256)) \div 256

\* dest.paste(src, mask=mask), both images of the same size
Paste(dest, src, mask) ==
    [dest EXCEPT !.data = [k \in 1 .. dest.width |->
        LET c == ColourBands(src.mode, src.data[k])
        IN  IF mask = << >> THEN c
            ELSE [ch \in 1 .. 3 |-> Blend8(mask[k], dest.data[k][ch], c[ch])]]]

\* lines 75-80 of optimize_jpg
Flatten(im) ==
    IF im.mode \in {"RGBA", "LA", "P"}
    THEN LET rgb_img == ImageNew("RGB", im.width, <<White, White, White>>)
             src == IF im.mode = "P" THEN ConvertRGBA(im) ELSE im
         IN  Paste(rgb_img, src, MaskFor(src))
    ELSE im

\* the image optimize_png hands to save(format='PNG')
OptimizePngImage(im) == StripExif(im)

\* the image optimize_jpg hands to save(format='JPEG')
OptimizeJpgImage(im) == StripExif(Flatten(im))

\* the image optimize_webp hands to save(format='WEBP')
OptimizeWebpImage(im) == StripExif(im)

ImgInit ==
    /\ OptIdle /\ GenIdle
    /\ img \in Images
    /\ fmt = "none"
    /\ saved = NoImage

RunOptimizePng ==
    /\ UNCHANGED <<optVars, genVars>>
    /\ fmt = "none"
    /\ fmt' = "png"
    /\ saved' = OptimizePngImage(img)
    /\ UNCHANGED img

RunOptimizeJpg ==
    /\ UNCHANGED <<optVars, genVars>>
    /\ fmt = "none"
    /\ fmt' = "jpg"
    /\ saved' = OptimizeJpgImage(img)
    /\ UNCHANGED img

RunOptimizeWebp ==
    /\ UNCHANGED <<optVars, genVars>>
    /\ fmt = "none"
    /\ fmt' = "webp"
    /\ saved' = OptimizeWebpImage(img)
    /\ UNCHANGED img

ImgNext == RunOptimizePng \/ RunOptimizeJpg \/ RunOptimizeWebp


(***************************************************************************)
(* generate-og-image.py                                                    *)
(***************************************************************************)
\* how far around the 300 KB limit the sizes of the written file range
SizeSpread == 2

\* if file_size_kb > 300
LimitKb == 300
\* file_size_kb = file_size / 1024
BytesPerKb == 1024
\* ImageFont.truetype(font_path, 80) and (font_path, 40)
TitleSize == 80
SubtitleSize == 40

font_paths ==
    << "/System/Library/Fonts/Supplemental/Arial Bold.ttf",
       "/usr/share/fonts/truetype/dejavu/DejaVuSans-Bold.ttf",
       "C:\\Windows\\Fonts\\arialbd.ttf" >>

FontPositions == 1 .. Len(font_paths)

\* sizes the JPEG encoder may give the output file
OgSizes ==
    { 1, (LimitKb + 1) * BytesPerKb }
    \cup ((LimitKb * BytesPerKb - SizeSpread) .. (LimitKb * BytesPerKb + SizeSpread))

\* what output_path holds before the run: nothing, or the file of an earlier run
PriorSizes == { 0, 1 }
\* what a save that raises leaves at output_path besides what was there:
\* nothing (the file truncated or removed) or the bytes written so far
PartialSizes == { 0, 3 }

\* encodings sys.stdout may have: one with both glyphs the script prints, one
\* with the check mark only, one with neither
StdoutEncodings == { "utf-8", "shift_jis_2004", "latin-1" }

\* what the name of the directory the script lies in, and with it
\* output_path (lines 102-106), may hold: ASCII only, the letter U+03A9, the
\* syllable U+D55C, or the lone surrogate U+DCFF of a file name that is not
\* valid UTF-8
PathChars == { "ascii", "omega", "hangul", "surrogate" }

\* error handlers sys.stdout may have: strict (PYTHONIOENCODING=enc, or a
\* locale other than C/POSIX), surrogateescape (the C/POSIX locale, UTF-8
\* mode), replace (PYTHONIOENCODING=enc:replace)
StdoutErrors == { "strict", "surrogateescape", "replace" }

\* whether the codec itself has the character
InCodec(enc, glyph) ==
    CASE glyph = "ascii"                 -> TRUE
      [] glyph \in {"check", "omega"}    -> enc \in {"utf-8", "shift_jis_2004"}
      [] glyph \in {"warning", "hangul"} -> enc = "utf-8"
      [] glyph = "surrogate"             -> FALSE

\* whether print can encode a character: the check mark U+2713 of lines 111
\* and 122, the warning sign U+26A0 of line 120, a character of output_path;
\* when it cannot, print raises UnicodeEncodeError. The handler replace
\* writes '?' for what the codec lacks, surrogateescape writes a lone
\* surrogate back as its byte.
CanEncode(enc, errors, glyph) ==
    \/ InCodec(enc, glyph)
    \/ errors = "replace"
    \/ errors = "surrogateescape" /\ glyph = "surrogate"

\* str.isprintable: repr() keeps a printable character and writes any other
\* as an ASCII escape
Printable(glyph) == glyph # "surrogate"

\* whether print can encode output_path, which line 111 formats into its line
PathEncodable(enc, errors, ch) == CanEncode(enc, errors, ch)

\* whether print can encode repr(output_path), which the text of an OSError
\* of save or getsize holds
PathReprEncodable(enc, errors, ch) == ~Printable(ch) \/ CanEncode(enc, errors, ch)

NoFont == [source |-> "None", size |-> 0]
\* ImageFont.load_default()
DefaultFont == [source |-> "load_default", size |-> 0]
\* ImageFont.truetype(path, size)
TrueType(path, size) == [source |-> path, size |-> size]

\* The for loop of lines 38-42 from position k on, with the truetype call named
\* by fail raising. The result is the two locals, the truetype calls made and
\* whether an exception left the loop.
RECURSIVE FontLoopNoBreak(_, _, _, _)
FontLoopNoBreak(k, ex, fail, acc) ==
    IF k > Len(font_paths) THEN acc
    ELSE IF ~ex[k] THEN FontLoopNoBreak(k + 1, ex, fail, acc)
    ELSE IF fail = "title"
         THEN [acc EXCEPT !.tried = Append(@, TrueType(font_paths[k], TitleSize)),
                          !.raised = TRUE]
    ELSE IF fail = "subtitle"
         THEN [acc EXCEPT !.title = TrueType(font_paths[k], TitleSize),
                          !.tried = @ \o << TrueType(font_paths[k], TitleSize),
                                           TrueType(font_paths[k], SubtitleSize) >>,
                          !.raised = TRUE]
    ELSE FontLoopNoBreak(k + 1, ex, fail,
            [acc EXCEPT !.title = TrueType(font_paths[k], TitleSize),
                        !.subtitle = TrueType(font_paths[k], SubtitleSize),
                        !.tried = @ \o << TrueType(font_paths[k], TitleSize),
                                         TrueType(font_paths[k], SubtitleSize) >>])

RECURSIVE FontLoop(_, _, _, _)
FontLoop(k, ex, fail, acc) ==
    IF k > Len(font_paths) THEN acc
    ELSE IF ~ex[k] THEN FontLoop(k + 1, ex, fail, acc)
    ELSE IF fail = "title"
         THEN [acc EXCEPT !.tried = Append(@, TrueType(font_paths[k], TitleSize)),
                          !.raised = TRUE]
    ELSE IF fail = "subtitle"
         THEN [acc EXCEPT !.title = TrueType(font_paths[k], TitleSize),
                          !.tried = @ \o << TrueType(font_paths[k], TitleSize),
                                           TrueType(font_paths[k], SubtitleSize) >>,
                          !.raised = TRUE]
    ELSE \* both loaded: break
         [acc EXCEPT !.title = TrueType(font_paths[k], TitleSize),
                     !.subtitle = TrueType(font_paths[k], SubtitleSize),
                     !.tried = @ \o << TrueType(font_paths[k], TitleSize),
                                      TrueType(font_paths[k], SubtitleSize) >>]

\* lines 27-52: the try block and its two fallbacks
SelectFonts(ex, fail) ==
    LET r == FontLoop(1, ex, fail,
                 [title |-> NoFont, subtitle |-> NoFont, tried |-> << >>,
                  raised |-> FALSE])
    IN  IF r.raised
        THEN \* except Exception, lines 49-52
             [r EXCEPT !.title = DefaultFont, !.subtitle = DefaultFont]
        ELSE IF r.title = NoFont
        THEN \* if not title_font, lines 44-47
             [r EXCEPT !.title = DefaultFont, !.subtitle = DefaultFont]
        ELSE r

\* file_size_kb = file_size / 1024, a true division: kept as a fraction
FileSizeKb(size) == [num |-> size, den |-> BytesPerKb]

\* file_size_kb > 300
ExceedsLimit(kb) == kb.num > LimitKb * kb.den

\* the except clauses of lines 127-133, for an exception of the given kind
\* leaving create_og_image: the lines printed and the exit code. No step
\* below raises an ImportError: the failing import is at line 7, outside the
\* try, and an ImportError of truetype is caught at lines 49-52.
Handler(kind) ==
    IF kind = "ImportError"
    THEN [lines |-> << "Error: PIL/Pillow is not installed.",
                       "Install it with: pip3 install Pillow" >>, code |-> 1]
    ELSE [lines |-> << "Error creating Open Graph image" >>, code |-> 1]

\* an exception whose text is plain ASCII: what drawing and text measurement
\* raise (textbbox on a font that is not TrueType), an encoder error of
\* save, and the UnicodeEncodeError of a print, whose text escapes the
\* character
PlainError == [kind |-> "Exception", carriesPath |-> FALSE]

\* the OSError of save (FileNotFoundError, PermissionError) and of getsize:
\* its text ends with repr(output_path)
PathError == [kind |-> "Exception", carriesPath |-> TRUE]

\* whether print can encode str(e), which line 132 formats into its message
TextEncodable(e) == e.carriesPath => PathReprEncodable(stdoutEnc, stdoutErrors, pathChar)

GenInit ==
    /\ OptIdle /\ ImgIdle
    /\ pilInstalled \in BOOLEAN
    /\ stdoutEnc \in StdoutEncodings
    /\ stdoutErrors \in StdoutErrors
    /\ pathChar \in PathChars
    /\ fontExists \in [FontPositions -> BOOLEAN]
    /\ gpc = "import"
    /\ title_font = NoFont
    /\ subtitle_font = NoFont
    /\ tried = << >>
    /\ fontError = "none"
    /\ ogFile \in PriorSizes
    /\ saves = 0
    /\ file_size = 0
    /\ raised = "none"
    /\ gout = << >>
    /\ uncaught = "none"
    /\ exitCode = << >>

\* the exception e leaves create_og_image after the step has printed the
\* given lines, lines 125-133
Leave(printed, e) ==
    /\ raised' = e.kind
    /\ gpc' = "exit"
    /\ IF e.kind = "ImportError" \/ TextEncodable(e)
       THEN /\ gout' = gout \o printed \o Handler(e.kind).lines
            /\ exitCode' = << Handler(e.kind).code >>
            /\ UNCHANGED uncaught
       ELSE \* the print of line 132 raises UnicodeEncodeError inside the except
            \* clause: nothing is printed, line 133 is not reached, the
            \* interpreter prints the traceback and exits with code 1
            /\ gout' = gout \o printed
            /\ uncaught' = "UnicodeEncodeError"
            /\ exitCode' = << 1 >>

\* line 7, at module level and outside the try of line 125: without Pillow the
\* import raises ModuleNotFoundError, which nothing catches; the interpreter
\* prints the traceback and exits with code 1.
GenImport ==
    /\ UNCHANGED <<optVars, imgVars>>
    /\ gpc = "import"
    /\ IF pilInstalled
       THEN /\ gpc' = "fonts"
            /\ UNCHANGED <<uncaught, exitCode>>
       ELSE /\ gpc' = "exit"
            /\ uncaught' = "ModuleNotFoundError"
            /\ exitCode' = << 1 >>
    /\ UNCHANGED <<pilInstalled, stdoutEnc, stdoutErrors, pathChar, fontExists, title_font,
                   subtitle_font, tried, fontError, ogFile, saves, file_size,
                   raised, gout>>

\* lines 23-52: the canvas and the fonts
GenSelectFonts ==
    /\ UNCHANGED <<optVars, imgVars>>
    /\ gpc = "fonts"
    /\ \E fail \in {"none", "title", "subtitle"} :
        /\ (fail # "none" => \E k \in FontPositions : fontExists[k])
        /\ LET r == SelectFonts(fontExists, fail)
           IN  /\ title_font' = r.title
               /\ subtitle_font' = r.subtitle
               /\ tried' = r.tried
        /\ fontError' = fail
    /\ gpc' = "draw"
    /\ UNCHANGED <<pilInstalled, stdoutEnc, stdoutErrors, pathChar, fontExists, ogFile, saves,
                   file_size, raised, gout, uncaught, exitCode>>

\* lines 54-99: bars, corners, text measurement and text
GenDraw ==
    /\ UNCHANGED <<optVars, imgVars>>
    /\ gpc = "draw"
    /\ \E ok \in BOOLEAN :
        IF ok
        THEN /\ gpc' = "save"
             /\ UNCHANGED <<raised, gout, uncaught, exitCode>>
        ELSE Leave(<< >>, PlainError)
    /\ UNCHANGED <<pilInstalled, stdoutEnc, stdoutErrors, pathChar, fontExists, title_font, subtitle_font,
                   tried, fontError, ogFile, saves, file_size>>

\* lines 101-112: save and the two lines that follow it. A save that raises
\* may leave a partly written file; after a save that returned, the print of
\* line 111 raises when stdout cannot encode the check mark or a character of
\* output_path, which the line names.
GenSave ==
    /\ UNCHANGED <<optVars, imgVars>>
    /\ gpc = "save"
    /\ \E ok \in BOOLEAN :
        IF ok
        THEN /\ \E n \in OgSizes : ogFile' = n
             /\ saves' = saves + 1
             /\ IF /\ CanEncode(stdoutEnc, stdoutErrors, "check")
                   /\ PathEncodable(stdoutEnc, stdoutErrors, pathChar)
                THEN /\ gout' = gout \o << "Created Open Graph image", "Dimensions" >>
                     /\ gpc' = "report"
                     /\ UNCHANGED <<raised, uncaught, exitCode>>
                ELSE Leave(<< >>, PlainError)
        ELSE /\ \E e \in {PlainError, PathError} : Leave(<< >>, e)
             /\ \E n \in PartialSizes \cup {ogFile} : ogFile' = n
             /\ UNCHANGED saves
    /\ UNCHANGED <<pilInstalled, stdoutEnc, stdoutErrors, pathChar, fontExists, title_font, subtitle_font,
                   tried, fontError, file_size>>

\* lines 114-122, and the normal end of the script. getsize may raise; after
\* the "File size" line the print of the verdict raises when stdout cannot
\* encode the glyph the verdict line starts with.
GenReport ==
    /\ UNCHANGED <<optVars, imgVars>>
    /\ gpc = "report"
    /\ \E ok \in BOOLEAN :
        IF ok
        THEN /\ file_size' = ogFile
             /\ IF ExceedsLimit(FileSizeKb(file_size'))
                THEN IF CanEncode(stdoutEnc, stdoutErrors, "warning")
                     THEN /\ gout' = gout \o << "File size",
                                 "Warning: File size exceeds recommended 300KB" >>
                          /\ gpc' = "exit"
                          /\ exitCode' = << 0 >>
                          /\ UNCHANGED <<raised, uncaught>>
                     ELSE Leave(<< "File size" >>, PlainError)
                ELSE IF CanEncode(stdoutEnc, stdoutErrors, "check")
                     THEN /\ gout' = gout \o << "File size",
                                 "File size is within recommended limits" >>
                          /\ gpc' = "exit"
                          /\ exitCode' = << 0 >>
                          /\ UNCHANGED <<raised, uncaught>>
                     ELSE Leave(<< "File size" >>, PlainError)
        ELSE /\ Leave(<< >>, PathError)
             /\ UNCHANGED file_size
    /\ UNCHANGED <<pilInstalled, stdoutEnc, stdoutErrors, pathChar, fontExists, title_font, subtitle_font,
                   tried, fontError, ogFile, saves>>

GenNext == GenImport \/ GenSelectFonts \/ GenDraw \/ GenSave \/ GenReport

OptNext == SkipEntry \/ ProcessEntry \/ FailEntry \/ FinishRun

SpecOpt == OptInit /\ [][OptNext]_vars
SpecImg == ImgInit /\ [][ImgNext]_vars
SpecGen == GenInit /\ [][GenNext]_vars


(***************************************************************************)
(* Properties of the optimizer's main loop                                 *)
(***************************************************************************)
RECURSIVE SumAmounts(_)
SumAmounts(lines) ==
    IF lines = << >> THEN 0
    ELSE (Head(lines).orig - Head(lines).new) + SumAmounts(Tail(lines))

RECURSIVE SumShrink(_)
\* what the files at the positions of set S lost on disk since the run began
SumShrink(S) ==
    IF S = {} THEN 0
    ELSE LET k == CHOOSE x \in S : TRUE
         IN  (fsize0[k] - fsize[k]) + SumShrink(S \ {k})

SavedLines == SelectSeq(out, LAMBDA l : l.line = "Saved")
CallsFor(k) == { c \in 1 .. Len(calls) : calls[c].idx = k }
LinesFor(k) == { l \in 1 .. Len(out) : out[l].idx = k }
\* the entries the loop has left behind it
Passed == { k \in Positions : k < i }
\* paths j and k name the same file
SameFile(j, k) == link[j] = link[k]
\* the failed iteration may have written to the file of path k
FailureTouched(k) == failedAt # 0 /\ SameFile(failedAt, k)
\* the reports, before report l, of a file that report l is about too
EarlierOnFile(l) ==
    { m \in 1 .. (l - 1) : SameFile(SavedLines[m].idx, SavedLines[l].idx) }
\* the size the file of report l had when its iteration began: what the latest
\* earlier overwrite of that file left, else its size before the run
SizeBefore(l) ==
    IF EarlierOnFile(l) = {} THEN fsize0[SavedLines[l].idx]
    ELSE SavedLines[CHOOSE m \in EarlierOnFile(l) :
                        \A m2 \in EarlierOnFile(l) : m2 <= m].new
\* no later report is about the file of report l
LastOnFile(l) ==
    \A m \in (l + 1) .. Len(SavedLines) :
        ~SameFile(SavedLines[m].idx, SavedLines[l].idx)

\* C1: a worklist entry whose file does not exist is skipped: no optimize_* call
\* is made for it, no file appears at its path, only the "Skipping" line is
\* printed for it and it adds nothing to total_saved (the total is what the
\* processed files lost on disk); the loop goes on, so every entry behind the
\* loop position whose file exists has been processed, in worklist order, and
\* all of them before the total is printed.
C1_MissingSkippedRestProcessed ==
    /\ \A k \in Positions : ~exists0[k] =>
          /\ ~exists[k]
          /\ CallsFor(k) = {}
          /\ \A l \in LinesFor(k) : out[l].line = "Skipping"
          /\ (k \in Passed => Cardinality(LinesFor(k)) = 1)
    /\ \A k \in Passed : exists0[k] =>
          /\ Cardinality(CallsFor(k)) = 1
          /\ \E l \in LinesFor(k) : out[l].line = "Saved"
    /\ \A c, d \in 1 .. Len(calls) : c < d => calls[c].idx < calls[d].idx
    /\ ((\A k \in Passed : ~FailureTouched(k)) =>
          total_saved = SumShrink({ link[k] : k \in { p \in Passed : exists0[p] } }))
    /\ (opc = "done" =>
          /\ Passed = Positions
          /\ out[Len(out) - 1].line = "Total"
          /\ out[Len(out) - 1].amount = total_saved)

C1_Witness ==
    /\ opc = "done"
    /\ ~exists0[2] /\ ~exists0[3]
    /\ exists0[1] /\ exists0[4] /\ exists0[5]
    /\ Len(calls) = 3
    /\ total_saved # 0

\* C2: the savings an optimize_* function reports for a file equal the file's
\* size before the overwrite minus its size after it, the original size main
\* measures is the one the function measures, and total_saved is the sum of
\* (original_size - new_size) over the files processed so far; the printed
\* total is that sum. Savings may be negative. The size before the overwrite
\* is the size the file has when its iteration begins, which an earlier
\* iteration has changed when two worklist paths name one file.
C2_SavingsAndTotal ==
    /\ \A l \in 1 .. Len(SavedLines) :
          /\ SavedLines[l].orig = SizeBefore(l)
          /\ SavedLines[l].amount = SizeBefore(l) - SavedLines[l].new
          /\ ((LastOnFile(l) /\ ~FailureTouched(SavedLines[l].idx)) =>
                SavedLines[l].new = fsize[SavedLines[l].idx])
    /\ ((failedAt = 0 /\ SavedLines # << >>) =>
          /\ original_size = SavedLines[Len(SavedLines)].orig
          /\ new_size = SavedLines[Len(SavedLines)].new)
    /\ total_saved = SumAmounts(SavedLines)
    /\ (opc = "done" => out[Len(out) - 1] = Line("Total", 0, 0, 0, SumAmounts(SavedLines)))

C2_Witness ==
    /\ opc = "done"
    /\ Len(SavedLines) >= 3
    /\ SameFile(1, 2)
    /\ \E l \in 1 .. Len(SavedLines) : SavedLines[l].amount < 0
    /\ \E l \in 1 .. Len(SavedLines) : SavedLines[l].amount > 0
    /\ SavedLines[2].orig # fsize0[2]
    /\ total_saved # 0

\* C3: an error raised while the entry at position failedAt is processed is not
\* caught: the run is over (no step follows), no later entry is processed, the
\* file of a later entry is as it was before the run unless an entry up to
\* failedAt names the same file, neither the total nor the success line is
\* printed, and the files processed before stay overwritten.
C3_ErrorHaltsBatch ==
    failedAt # 0 =>
        /\ opc = "aborted"
        /\ ~ENABLED OptNext
        /\ i = failedAt
        /\ \A k \in Positions : k > failedAt =>
              /\ exists[k] = exists0[k]
              /\ ((\A j \in 1 .. failedAt : ~SameFile(j, k)) => fsize[k] = fsize0[k])
              /\ CallsFor(k) = {}
              /\ LinesFor(k) = {}
        /\ \A l \in 1 .. Len(out) : out[l].line \notin {"Total", "Success"}
        /\ \A l \in 1 .. Len(SavedLines) :
              /\ SavedLines[l].idx < failedAt
              /\ ((LastOnFile(l) /\ ~FailureTouched(SavedLines[l].idx)) =>
                    fsize[SavedLines[l].idx] = SavedLines[l].new)

C3_Witness ==
    /\ failedAt = 3
    /\ opc = "aborted"
    /\ exists0[4] /\ fsize0[4] > 0
    /\ \A j \in 1 .. 3 : ~SameFile(j, 4)
    /\ \E l \in 1 .. Len(SavedLines) :
          /\ SavedLines[l].idx = 1
          /\ fsize[1] # fsize0[1]

\* the function a worklist tag stands for
TagFunction(tag) ==
    CASE tag = "png" -> "optimize_png"
      [] tag = "jpg" -> "optimize_jpg"
      [] tag = "webp" -> "optimize_webp"

\* C10: every iteration that is not skipped calls exactly one optimize_*
\* function, the one its tag names, and total_saved is updated only right after
\* that call has reported and assigned new_size: no update runs on an
\* unassigned new_size or on the one left by an earlier entry.
C10_OneCallFreshNewSize ==
    /\ \A k \in Positions : images_to_optimize[k].format \in {"png", "jpg", "webp"}
    /\ \A k \in Passed : exists0[k] =>
          /\ Cardinality(CallsFor(k)) = 1
          /\ \A c \in CallsFor(k) :
                calls[c].fn = TagFunction(images_to_optimize[k].format)
    /\ (failedAt # 0 =>
          /\ calls # << >>
          /\ calls[Len(calls)].idx = failedAt)
    /\ ((failedAt = 0 /\ calls # << >>) =>
          /\ new_size_bound
          /\ new_size = fsize[calls[Len(calls)].idx])
    /\ \A l \in 1 .. Len(out) : out[l].line = "Blank" =>
          /\ l > 1
          /\ out[l - 1].line = "Saved"
          /\ out[l - 1].idx = out[l].idx

C10_Witness ==
    /\ opc = "done"
    /\ \A f \in {"optimize_png", "optimize_jpg", "optimize_webp"} :
          \E c \in 1 .. Len(calls) : calls[c].fn = f
    /\ ~exists0[1]


(***************************************************************************)
(* Properties of the pixel pipeline                                        *)
(***************************************************************************)
\* what a viewer shows for pixel k of an image: colour and alpha
Shown(im, k) ==
    LET px == im.data[k]
    IN  CASE im.mode = "RGB"  -> px \o <<255>>
          [] im.mode = "RGBA" -> px
          [] im.mode = "L"    -> <<px[1], px[1], px[1], 255>>
          [] im.mode = "LA"   -> <<px[1], px[1], px[1], px[2]>>
          [] im.mode = "P"    -> im.palette[px[1] + 1]
                                 \o << IF im.trns = << >> THEN 255
                                       ELSE im.trns[px[1] + 1] >>

ShownColour(im, k) == SubSeq(Shown(im, k), 1, 3)
ShownAlpha(im, k) == Shown(im, k)[4]

\* C8: optimize_jpg turns a source of mode RGBA, LA or P into an opaque RGB
\* image of the same size in which every fully transparent source pixel is
\* white and every fully opaque source pixel keeps its colour; a source of
\* another mode is not flattened and keeps its mode and pixels.
C8_JpgFlattenedOnWhite ==
    fmt = "jpg" =>
        /\ saved.width = img.width
        /\ saved.info = {}
        /\ IF img.mode \in {"RGBA", "LA", "P"}
           THEN /\ saved.mode = "RGB"
                /\ \A k \in 1 .. img.width :
                      /\ Len(saved.data[k]) = 3
                      /\ (ShownAlpha(img, k) = 0 =>
                            saved.data[k] = <<255, 255, 255>>)
                      /\ (ShownAlpha(img, k) = 255 =>
                            saved.data[k] = ShownColour(img, k))
           ELSE /\ saved.mode = img.mode
                /\ saved.data = img.data

C8_Witness ==
    /\ fmt = "jpg"
    /\ img.mode = "LA"
    /\ img.width = 2
    /\ img.data[1] = <<77, 0>>
    /\ img.data[2] = <<77, 255>>
    /\ saved.data = << <<255, 255, 255>>, <<77, 77, 77>> >>

\* C9: the image optimize_png writes carries no metadata and has the size, the
\* mode and the displayed pixel content of the source, for a source of any
\* mode, mode P included.
C9_PngPixelIdentical ==
    fmt = "png" =>
        /\ saved.info = {}
        /\ saved.mode = img.mode
        /\ saved.width = img.width
        /\ \A k \in 1 .. img.width : Shown(saved, k) = Shown(img, k)

(***************************************************************************)
(* Properties of the generator                                             *)
(***************************************************************************)
Printed(text) == \E l \in 1 .. Len(gout) : gout[l] = text
TimesPrinted(text) == Cardinality({ l \in 1 .. Len(gout) : gout[l] = text })
HintPrinted ==
    /\ Printed("Error: PIL/Pillow is not installed.")
    /\ Printed("Install it with: pip3 install Pillow")
WarningLine == "Warning: File size exceeds recommended 300KB"
WithinLine == "File size is within recommended limits"
\* create_og_image was called and returned
Returned == gpc = "exit" /\ pilInstalled /\ raised = "none"
\* the first font path that exists, 0 when there is none
FirstExisting ==
    IF \E k \in FontPositions : fontExists[k]
    THEN CHOOSE k \in FontPositions :
            fontExists[k] /\ \A j \in FontPositions : fontExists[j] => k <= j
    ELSE 0
FontsChosen == gpc \in {"draw", "save", "report", "exit"} /\ pilInstalled

\* C4: run without Pillow installed, the generator prints the "PIL/Pillow is
\* not installed" message with the "pip3 install Pillow" hint and exits with
\* code 1.
C4_MissingPillowHint ==
    (~pilInstalled /\ gpc = "exit") =>
        /\ HintPrinted
        /\ exitCode = << 1 >>

\* C5: the generator exits with code 0 exactly when create_og_image
\* returns without raising; any exception raised by create_og_image prints
\* "Error creating Open Graph image" and exits with code 1, and no success line
\* follows the failure.
C5_AnyExceptionErrorCreating ==
    gpc = "exit" =>
        /\ (exitCode = << 0 >> <=> Returned)
        /\ (raised # "none" =>
              /\ Len(gout) > 0
              /\ gout[Len(gout)] = "Error creating Open Graph image"
              /\ exitCode = << 1 >>
              /\ ~Printed(WarningLine) /\ ~Printed(WithinLine)
              /\ (saves = 0 => ~Printed("Created Open Graph image")))

\* C6 as claimed: whatever font paths exist, both fonts are loaded from the
\* first path that exists (sizes 80 and 40) and no later path is tried; when
\* none exists both are the built-in default font; the two fonts always come
\* from the same source.
C6_FirstExistingFontLoaded ==
    FontsChosen =>
        /\ title_font.source = subtitle_font.source
        /\ IF FirstExisting = 0
           THEN /\ title_font = DefaultFont /\ subtitle_font = DefaultFont
                /\ tried = << >>
           ELSE /\ title_font = TrueType(font_paths[FirstExisting], 80)
                /\ subtitle_font = TrueType(font_paths[FirstExisting], 40)
                /\ \A t \in 1 .. Len(tried) :
                      tried[t].source = font_paths[FirstExisting]

\* C6 as amended: whatever font paths exist, truetype is called for the first
\* path that exists and for no other; when both calls succeed the fonts are
\* that path at sizes 80 and 40; when one of them raises, or when no path
\* exists, both fonts are the built-in default font; the two fonts always come
\* from the same source.
C6_FirstExistingOrDefault ==
    FontsChosen =>
        /\ title_font.source = subtitle_font.source
        /\ IF FirstExisting = 0
           THEN /\ title_font = DefaultFont /\ subtitle_font = DefaultFont
                /\ tried = << >>
           ELSE /\ tried # << >>
                /\ \A t \in 1 .. Len(tried) :
                      tried[t].source = font_paths[FirstExisting]
                /\ IF fontError = "none"
                   THEN /\ title_font = TrueType(font_paths[FirstExisting], 80)
                        /\ subtitle_font = TrueType(font_paths[FirstExisting], 40)
                        /\ Len(tried) = 2
                   ELSE title_font = DefaultFont /\ subtitle_font = DefaultFont

C6_Witness ==
    /\ FontsChosen
    /\ ~fontExists[1] /\ fontExists[2] /\ fontExists[3]
    /\ fontError = "none"
    /\ title_font = TrueType(font_paths[2], 80)
    /\ subtitle_font = TrueType(font_paths[2], 40)

\* C7: after the generator has written the output file, the warning is
\* printed if and only if the file size exceeds 300 KB (more than 307200
\* bytes) and the "within recommended limits" line otherwise, exactly one of
\* the two; the check is advisory: the written file is left as it is, save is
\* not run again, and the run ends with exit code 0.
C7_SizeWarningAdvisory ==
    (gpc = "exit" /\ saves >= 1) =>
        /\ saves = 1
        /\ file_size = ogFile
        /\ (Printed(WarningLine) <=> ogFile > 307200)
        /\ (Printed(WithinLine) <=> ogFile <= 307200)
        /\ TimesPrinted(WarningLine) + TimesPrinted(WithinLine) = 1
        /\ exitCode = << 0 >>

====
